---- MODULE Spec2Model ----
(***************************************************************************)
(* A model of iamc_sdmx.py: the construction of the VARIABLE codelist from *)
(* pipe-delimited path strings, the walk that resolves a row's 'variable'  *)
(* field through that codelist, and the row loop that builds one SeriesKey *)
(* and its Observations per CSV row and adds them to the DataSet.          *)
(*                                                                         *)
(* The script drives the pandaSDMX information model.  The calls it makes  *)
(* are modelled by what that library does:                                 *)
(*   - an Item (Code) is an object with an id, a parent reference and a    *)
(*     list of child references; Item(parent=p) appends the new object to  *)
(*     p.child unless p.child already holds an object with the same id;    *)
(*   - two Items are equal when their ids are equal;                       *)
(*   - ItemScheme.setdefault(id=, parent=) looks a string parent up with   *)
(*     self[parent] (KeyError when absent), ALWAYS instantiates a new      *)
(*     Item, and appends it to the scheme's items only when no item with   *)
(*     an equal id is there already;                                       *)
(*   - ItemScheme[id] is the first item with that id (KeyError if none);   *)
(*     Item.get_child(id) is the first child with that id (ValueError);    *)
(*   - Key with keyword arguments stores one KeyValue each, in their order;*)
(*     Keys are equal (and hash alike) when their values are equal;        *)
(*   - DataSet.add_obs(obs, sk) creates series[sk] when no equal key is    *)
(*     there and appends the observations to series[sk] and to obs.        *)
(* A string is a sequence of one-character strings, so that split('|') is  *)
(* computed and not assumed.                                               *)
(***************************************************************************)
EXTENDS Integers, Sequences, FiniteSets, TLC

\* Bounds of the model.
MaxCodes == 3
MaxDepth == 3
MaxRows == 2

\* The characters code ids are made of, and the path delimiter of line 77.
Alphabet == {"A", "B"}
Sep == "|"

\* Python's None, as an object reference.
None == 0

VARIABLES
    codes,      \* the heap of Code objects: reference -> [id, parent, child]
    items,      \* variables.items: references, in insertion order
    listed,     \* the entries of iamc_info['variables'] iterated so far
    pc,         \* "codes", "rows", "done" or "aborted" (uncaught exception)
    err,        \* the exception that ended the script, or "none"
    query,      \* the last 'variable' string walked
    found,      \* the outcome of that walk: [err, code]
    header,     \* the column names of plot_data.csv, in file order
    rows,       \* the rows the reader has yielded so far
    sks,        \* the heap of SeriesKey objects: reference -> [values, attrib]
    series,     \* ds.series: [key, obs] per distinct key, in insertion order
    dsobs       \* ds.obs: every observation added, in order

hier == <<codes, items, listed>>
data == <<header, rows, sks, series, dsobs>>
vars == <<codes, items, listed, pc, err, query, found, data>>

----------------------------------------------------------------------------
\* Strings

\* str.split(Sep): the segments between the delimiters, empty ones kept.
RECURSIVE Split(_)
Split(s) ==
    IF \A i \in DOMAIN s : s[i] # Sep
    THEN <<s>>
    ELSE LET i == CHOOSE k \in DOMAIN s :
                      s[k] = Sep /\ \A j \in 1..(k - 1) : s[j] # Sep
         IN  <<SubSeq(s, 1, i - 1)>> \o Split(SubSeq(s, i + 1, Len(s)))

\* The path string of a sequence of ids: the ids joined by the delimiter.
RECURSIVE Join(_)
Join(p) ==
    IF Len(p) = 0 THEN <<>>
    ELSE IF Len(p) = 1 THEN p[1]
    ELSE p[1] \o <<Sep>> \o Join(Tail(p))

\* The code ids of the model: one character each.
Ids == {<<c>> : c \in Alphabet}

\* The sequences of 1..n ids.
IdSeqs(n) == UNION {[1..k -> Ids] : k \in 1..n}

\* The path strings the code list and the rows draw from.
PathStrings == {Join(p) : p \in IdSeqs(MaxDepth)}

\* itertools recipe pairwise: (s0, s1), (s1, s2), ...
pairwise(c) == [i \in 1..(Len(c) - 1) |-> <<c[i], c[i + 1]>>]

----------------------------------------------------------------------------
\* The codelist

\* Whether the scheme holds an item with this id.
HasItem(cs, its, id) == \E i \in DOMAIN its : cs[its[i]].id = id

\* ItemScheme.__getitem__: the first item with this id.
GetItem(cs, its, id) ==
    its[CHOOSE i \in DOMAIN its :
            cs[its[i]].id = id /\ \A j \in 1..(i - 1) : cs[its[j]].id # id]

\* Whether code p has a child with this id.
HasChild(cs, p, id) == \E i \in DOMAIN cs[p].child : cs[cs[p].child[i]].id = id

\* Item.get_child: the first child with this id.
GetChild(cs, p, id) ==
    LET ch == cs[p].child
    IN  ch[CHOOSE i \in DOMAIN ch :
               cs[ch[i]].id = id /\ \A j \in 1..(i - 1) : cs[ch[j]].id # id]

\* Item.__init__(parent=p): the new object joins p.child unless an equal
\* (same id) object is there.
LinksChild(cs, p, id) == ~HasChild(cs, p, id)

\* AddsItem with Items compared by identity: every new object joins the scheme.
AddsItemAlways(cs, its, id) == TRUE

\* setdefault's `obj not in self.items`: the new object joins the scheme
\* unless an equal (same id) item is there.
AddsItem(cs, its, id) == ~HasItem(cs, its, id)

\* variables.setdefault(id=id, name=id): a top-level code.  The object is
\* instantiated in any case; when it is not added it is unreachable and the
\* heap does not keep it.
SetDefaultRoot(h, id) ==
    IF AddsItem(h.codes, h.items, id)
    THEN [h EXCEPT !.codes = Append(@, [id |-> id, parent |-> None,
                                        child |-> <<>>]),
                   !.items = Append(@, Len(h.codes) + 1)]
    ELSE h

\* SetDefaultChild as a registration that refuses an id that is there already.
SetDefaultChildRaisesOnDuplicate(h, id, pid) ==
    IF ~HasItem(h.codes, h.items, pid)
    THEN [h EXCEPT !.err = "KeyError"]
    ELSE IF HasItem(h.codes, h.items, id)
    THEN [h EXCEPT !.err = "DuplicateCodeError"]
    ELSE LET p == GetItem(h.codes, h.items, pid)
         IN  [h EXCEPT
                !.codes = Append([@ EXCEPT ![p].child =
                                      Append(@, Len(h.codes) + 1)],
                                 [id |-> id, parent |-> p, child |-> <<>>]),
                !.items = Append(@, Len(h.codes) + 1)]

\* variables.setdefault(id=id, name=id, parent=pid).
SetDefaultChild(h, id, pid) ==
    IF ~HasItem(h.codes, h.items, pid)
    THEN [h EXCEPT !.err = "KeyError"]
    ELSE LET p    == GetItem(h.codes, h.items, pid)
             new  == Len(h.codes) + 1
             link == LinksChild(h.codes, p, id)
             add  == AddsItem(h.codes, h.items, id)
             obj  == [id |-> id, parent |-> p, child |-> <<>>]
         IN  IF ~link /\ ~add
             THEN h
             ELSE [h EXCEPT
                     !.codes = Append(IF link
                                      THEN [@ EXCEPT ![p].child = Append(@, new)]
                                      ELSE @, obj),
                     !.items = IF add THEN Append(@, new) ELSE @]

\* The inner loop of line 83, from pair i on; an exception ends it.
RECURSIVE WalkDown(_, _, _)
WalkDown(h, pairs, i) ==
    IF i > Len(pairs) \/ h.err # "none"
    THEN h
    ELSE WalkDown(SetDefaultChild(h, pairs[i][2], pairs[i][1]), pairs, i + 1)

\* One iteration of the loop of line 76 on the entry s.
RegisterPath(h, s) ==
    LET c == Split(s)
    IN  IF Len(c) = 1
        THEN SetDefaultRoot(h, c[1])
        ELSE WalkDown(h, pairwise(c), 1)

\* The walk of lines 128-132, from segment i on, below `parent`.
RECURSIVE Walk(_, _, _, _, _)
Walk(cs, its, ids, i, parent) ==
    IF i > Len(ids)
    THEN [err |-> "none", code |-> parent]
    ELSE IF parent = None /\ ~HasItem(cs, its, ids[i])
    THEN [err |-> "KeyError", code |-> None]
    ELSE IF parent # None /\ ~HasChild(cs, parent, ids[i])
    THEN [err |-> "ValueError", code |-> None]
    ELSE LET variable == IF parent # None
                         THEN GetChild(cs, parent, ids[i])
                         ELSE GetItem(cs, its, ids[i])
         IN  IF ~(parent = None \/ cs[variable].parent = parent)
             THEN [err |-> "AssertionError", code |-> None]
             ELSE Walk(cs, its, ids, i + 1, variable)

\* The code a 'variable' string resolves to, or the exception.
ResolvePath(cs, its, s) == Walk(cs, its, Split(s), 1, None)

----------------------------------------------------------------------------
\* The codelist loop and the walk, as a state machine

Unset == [err |-> "unset", code |-> None]

InitHier ==
    /\ codes = <<>>
    /\ items = <<>>
    /\ listed = <<>>
    /\ pc = "codes"
    /\ err = "none"
    /\ query = <<>>
    /\ found = Unset
    /\ header = <<>>
    /\ rows = <<>>
    /\ sks = <<>>
    /\ series = <<>>
    /\ dsobs = <<>>

\* One iteration of the loop of line 76.
Register ==
    /\ pc = "codes"
    /\ Len(listed) < MaxCodes
    /\ \E s \in PathStrings :
         LET h == RegisterPath([codes |-> codes, items |-> items,
                                err |-> "none"], s)
         IN  /\ codes' = h.codes
             /\ items' = h.items
             /\ err' = h.err
             /\ listed' = Append(listed, s)
             /\ pc' = IF h.err = "none" THEN "codes" ELSE "aborted"
    /\ UNCHANGED <<query, found, data>>

\* The code list is exhausted: the DSD is completed and the rows follow.
EndCodes ==
    /\ pc = "codes"
    /\ pc' = "rows"
    /\ UNCHANGED <<codes, items, listed, err, query, found, data>>

\* The walk of lines 128-132 on one 'variable' string; a behaviour follows
\* one string, which is walked and may be walked again.
Resolve ==
    /\ pc = "rows"
    /\ \E s \in PathStrings :
         /\ found.err = "unset" \/ s = query
         /\ query' = s
         /\ found' = ResolvePath(codes, items, s)
    /\ UNCHANGED <<codes, items, listed, pc, err, data>>

NextHier == Register \/ EndCodes \/ Resolve

SpecHier == InitHier /\ [][NextHier]_vars

----------------------------------------------------------------------------
\* The data structure definition and the row loop

\* The dimensions of the DSD in the order they are appended; the codelist is
\* attached to dimensions[3], the fourth.
Dimensions == <<"MODEL", "SCENARIO", "REGION", "VARIABLE", "YEAR">>

\* The dimensions a SeriesKey gives a value: all but the one that varies
\* within a row.
KeyDimensions == SelectSeq(Dimensions, LAMBDA d : d # "YEAR")

\* The columns the row loop pops for the key, in the order of line 137.
KeyFields == <<"model", "scenario", "region">>

\* The columns every file has, in file order; the year columns follow.
FixedColumns == <<"model", "scenario", "region", "variable", "unit">>

\* str.upper() on the column names of line 137.
Upper(k) ==
    CASE k = "model" -> "MODEL"
      [] k = "scenario" -> "SCENARIO"
      [] k = "region" -> "REGION"
      [] k = "variable" -> "VARIABLE"
      [] k = "unit" -> "UNIT"
      [] OTHER -> k

\* The cell values of the sample files.
Models == {<<"m", "1">>}
Scenarios == {<<"s", "1">>}
Regions == {<<"r", "1">>}
Units == {<<"E", "J">>, <<"M", "t">>}
CellValues == {<<"5">>, <<"7">>}

\* The year columns of the sample files.
YearColumns == {<<>>, <<"2010", "2020">>}

\* The code lists of the sample schema descriptions (iamc.yaml).
CodeLists ==
    LET A == <<"A">>
        B == <<"B">>
    IN  { <<>>,
          <<A, Join(<<A, B>>)>>,
          <<A, B, Join(<<A, B>>)>>,
          <<A, Join(<<A, B>>), Join(<<A, B, A>>)>> }

\* The 'variable' cells of the sample files.
Variables ==
    LET A == <<"A">>
        B == <<"B">>
    IN  { A, B, Join(<<A, B>>), Join(<<B, A>>), Join(<<A, B, A>>) }

\* The loop of lines 76-85 over a whole code list, from entry i on.
RECURSIVE BuildCodelist(_, _, _)
BuildCodelist(h, l, i) ==
    IF i > Len(l) \/ h.err # "none"
    THEN h
    ELSE BuildCodelist(RegisterPath(h, l[i]), l, i + 1)

\* A dict is a sequence of [k, v] entries in insertion order.
\* d[k]
Get(d, k) == d[CHOOSE i \in DOMAIN d : d[i].k = k].v

\* d without the entry of k: what d.pop(k) leaves.
Pop(d, k) == SelectSeq(d, LAMBDA e : e.k # k)

\* csv.DictReader: the row of a line, keyed by the header.
DictRow(h, line) == [i \in DOMAIN h |-> [k |-> h[i], v |-> line[i]]]

\* Remaining without the pop of 'unit'.
RemainingKeepsUnit(row) ==
    Pop(Pop(Pop(Pop(row, "variable"), "model"), "scenario"), "region")

\* The row after the pops of lines 129, 136 and 145.
Remaining(row) ==
    Pop(Pop(Pop(Pop(Pop(row, "variable"), "model"), "scenario"), "region"),
        "unit")

\* SeriesKeyValues with each keyword given the cell of the next column.
SeriesKeyValuesShifted(row, variable) ==
    <<[id |-> "VARIABLE", value |-> variable]>> \o
    [i \in DOMAIN KeyFields |->
        [id |-> Upper(KeyFields[i]),
         value |-> Get(row, KeyFields[(i % Len(KeyFields)) + 1])]]

\* model.SeriesKey(VARIABLE=variable, MODEL=..., SCENARIO=..., REGION=...):
\* one KeyValue per keyword argument, in the order of the call.
SeriesKeyValues(row, variable) ==
    <<[id |-> "VARIABLE", value |-> variable]>> \o
    [i \in DOMAIN KeyFields |->
        [id |-> Upper(KeyFields[i]), value |-> Get(row, KeyFields[i])]]

\* The SeriesKey of a row, with its UNIT attribute (lines 135-146).
SeriesKey(row, variable) ==
    [values |-> SeriesKeyValues(row, variable),
     attrib |-> [UNIT |-> Get(row, "unit")]]

\* The observations of a row (lines 151-155): one per remaining column.
Observations(row, sk) ==
    LET rest == Remaining(row)
    IN  [i \in DOMAIN rest |->
            [dimension |-> <<[id |-> "YEAR", value |-> rest[i].k]>>,
             value |-> rest[i].v,
             series_key |-> sk]]

\* KeyValue equality: the values are equal; Codes are equal by id.
ValueEq(cs, id, a, b) ==
    IF id = "VARIABLE" THEN cs[a].id = cs[b].id ELSE a = b

\* Key equality: the same dimensions with equal values, in order.
KeyEq(cs, a, b) ==
    /\ Len(a.values) = Len(b.values)
    /\ \A i \in DOMAIN a.values :
        /\ a.values[i].id = b.values[i].id
        /\ ValueEq(cs, a.values[i].id, a.values[i].value, b.values[i].value)

\* SeriesIndex with keys compared by identity: no earlier key is equal.
SeriesIndexNone(cs, ks, ser, sk) == 0

\* The position in ds.series of the entry whose key equals sk, or 0.
SeriesIndex(cs, ks, ser, sk) ==
    IF \E g \in DOMAIN ser : KeyEq(cs, ks[ser[g].key], ks[sk])
    THEN CHOOSE g \in DOMAIN ser : KeyEq(cs, ks[ser[g].key], ks[sk])
    ELSE 0

\* ds.add_obs(obs, sk) on ds.series: the series of sk is created when no
\* equal key is there, and the observations are appended to it.
AddObs(cs, ks, ser, obs, sk) ==
    LET g == SeriesIndex(cs, ks, ser, sk)
    IN  IF g = 0
        THEN Append(ser, [key |-> sk, obs |-> obs])
        ELSE [ser EXCEPT ![g].obs = @ \o obs]

\* AfterRowError with the exception caught and the loop going on.
AfterRowErrorContinue == "rows"

\* Where the script is after an exception in the row loop: nothing catches
\* it, the script ends.
AfterRowError == "aborted"

\* The lines a file of this header can hold.
Lines(h) ==
    {[i \in DOMAIN h |->
        CASE h[i] = "model" -> m
          [] h[i] = "scenario" -> s
          [] h[i] = "region" -> r
          [] h[i] = "variable" -> p
          [] h[i] = "unit" -> u
          [] OTHER -> f[i]] :
     m \in Models, s \in Scenarios, r \in Regions, p \in Variables,
     u \in Units,
     f \in [{i \in DOMAIN h : \A c \in DOMAIN FixedColumns :
                                h[i] # FixedColumns[c]} -> CellValues]}

\* The state when the row loop starts: the codelist of a sample code list,
\* the DSD complete, an empty DataSet, the reader on a sample header.
Init ==
    /\ \E l \in CodeLists :
         LET h == BuildCodelist([codes |-> <<>>, items |-> <<>>,
                                 err |-> "none"], l, 1)
         IN  /\ h.err = "none"
             /\ codes = h.codes
             /\ items = h.items
             /\ listed = l
    /\ pc = "rows"
    /\ err = "none"
    /\ query = <<>>
    /\ found = Unset
    /\ header \in {FixedColumns \o y : y \in YearColumns}
    /\ rows = <<>>
    /\ sks = <<>>
    /\ series = <<>>
    /\ dsobs = <<>>

\* One iteration of the loop of line 124 on the next row of the file.
Row ==
    /\ pc = "rows"
    /\ Len(rows) < MaxRows
    /\ \E line \in Lines(header) :
         LET row == DictRow(header, line)
             res == ResolvePath(codes, items, Get(row, "variable"))
             sk  == Len(sks) + 1
             ks  == Append(sks, SeriesKey(row, res.code))
             obs == Observations(row, sk)
         IN  /\ rows' = Append(rows, row)
             /\ query' = Get(row, "variable")
             /\ found' = res
             /\ IF res.err # "none"
                THEN /\ pc' = AfterRowError
                     /\ err' = res.err
                     /\ UNCHANGED <<sks, series, dsobs>>
                ELSE /\ sks' = ks
                     /\ series' = AddObs(codes, ks, series, obs, sk)
                     /\ dsobs' = dsobs \o obs
                     /\ UNCHANGED <<pc, err>>
    /\ UNCHANGED <<hier, header>>

\* The reader is exhausted: the DataSet goes to to_pandas and is printed.
EndRows ==
    /\ pc = "rows"
    /\ pc' = "done"
    /\ UNCHANGED <<hier, err, query, found, data>>

Next == Row \/ EndRows

Spec == Init /\ [][Next]_vars

----------------------------------------------------------------------------
\* The hierarchy, as the claims speak of it

\* The references of the registered codes (the items of the codelist).
Registered == {items[i] : i \in DOMAIN items}

\* The id of a registered code's parent is pid.
RegisteredUnder(id, pid) ==
    /\ HasItem(codes, items, id)
    /\ codes[GetItem(codes, items, id)].parent # None
    /\ codes[codes[GetItem(codes, items, id)].parent].id = pid

\* The segments of the last walked 'variable' string.
querySegs == Split(query)

\* Every proper prefix of every listed path is listed before the path.
RootToLeaf(l) ==
    \A i \in DOMAIN l :
        LET c == Split(l[i])
        IN  \A n \in 1..(Len(c) - 1) :
                \E j \in 1..(i - 1) : Split(l[j]) = SubSeq(c, 1, n)

\* Following parent references from code c for at most n steps ends at a root.
RECURSIVE ReachesRoot(_, _)
ReachesRoot(c, n) ==
    IF codes[c].parent = None THEN TRUE
    ELSE IF n = 0 THEN FALSE
    ELSE ReachesRoot(codes[c].parent, n - 1)

\* C1 (as claimed): a walk succeeds exactly when its first id is registered
\* and every later id is a registered code whose registered parent is the id
\* before it, and it then returns the registered code of the last id; in
\* every other case it fails and returns no code.
C1_ResolveOnlyRegisteredParentage ==
    found.err # "unset" =>
        LET s  == querySegs
            ok == /\ HasItem(codes, items, s[1])
                  /\ \A i \in 2..Len(s) : RegisteredUnder(s[i], s[i - 1])
        IN  /\ (found.err = "none") <=> ok
            /\ found.err = "none" =>
                   found.code = GetItem(codes, items, s[Len(s)])
            /\ found.err # "none" => found.code = None

\* C2 (as claimed): after a code list processed in root-to-leaf order, the
\* walk of every listed path succeeds and returns the code whose id is the
\* path's last segment and whose parent is the path's second-to-last segment.
C2_ListedPathsResolve ==
    (/\ pc = "rows"
     /\ found.err # "unset"
     /\ RootToLeaf(listed)
     /\ \E i \in DOMAIN listed : listed[i] = query) =>
        LET s == querySegs
        IN  /\ found.err = "none"
            /\ codes[found.code].id = s[Len(s)]
            /\ Len(s) > 1 =>
                   /\ codes[found.code].parent # None
                   /\ codes[codes[found.code].parent].id = s[Len(s) - 1]

\* The ids a Register step passes to setdefault as `id`.
RegisteredIds(s) ==
    LET c == Split(s)
    IN  IF Len(c) = 1 THEN {c[1]} ELSE {c[i] : i \in 2..Len(c)}

\* A Register step of the entry s leaves every registered code in place,
\* with its id and its parent.
KeepsRegistered ==
    /\ Len(items') >= Len(items)
    /\ \A i \in DOMAIN items :
        /\ items'[i] = items[i]
        /\ codes'[items[i]].id = codes[items[i]].id
        /\ codes'[items[i]].parent = codes[items[i]].parent

\* C3 (as claimed): a registration whose id is already registered fails, a
\* registration whose parent is not registered fails, and both leave the
\* hierarchy unchanged.
C3_DuplicateAndUnknownParentFail ==
    [][(pc = "codes" /\ listed' # listed) =>
        LET s == listed'[Len(listed')]
            c == Split(s)
        IN  /\ (\E id \in RegisteredIds(s) : HasItem(codes, items, id)) =>
                   (pc' = "aborted" /\ codes' = codes /\ items' = items)
            /\ (Len(c) > 1 /\ ~HasItem(codes, items, c[1])) =>
                   (pc' = "aborted" /\ codes' = codes /\ items' = items)]_vars

\* C3 (amended): a registration all of whose ids are already registered does
\* not fail and leaves the registered codes and their parents as they were;
\* a registration whose parent is not registered fails with KeyError and
\* leaves the hierarchy unchanged; no registration ever removes or re-parents
\* a registered code.
C3_DuplicateKeptUnknownParentFails ==
    [][(pc = "codes" /\ listed' # listed) =>
        LET s == listed'[Len(listed')]
            c == Split(s)
        IN  /\ KeepsRegistered
            /\ (/\ Len(c) > 1 => HasItem(codes, items, c[1])
                /\ \A id \in RegisteredIds(s) : HasItem(codes, items, id)) =>
                   (pc' = "codes" /\ err' = "none" /\ items' = items)
            /\ (Len(c) > 1 /\ ~HasItem(codes, items, c[1])) =>
                   /\ pc' = "aborted" /\ err' = "KeyError"
                   /\ codes' = codes /\ items' = items]_vars

\* C3 witness: an id was registered a second time and the loop went on, and
\* the codelist holds a code under a parent.
C3_Witness ==
    /\ pc = "codes"
    /\ \E i, j \in DOMAIN listed : i < j /\ listed[i] = listed[j]
    /\ \E i \in DOMAIN items : codes[items[i]].parent # None

\* C4: the hierarchy is a forest: parent references end at a root, a code is
\* in the child list of its parent and of no other code, and there once;
\* every parent is a registered code; no id is registered twice.
C4_Forest ==
    /\ \A c \in DOMAIN codes : ReachesRoot(c, Len(codes))
    /\ \A c \in DOMAIN codes : codes[c].parent \in Registered \cup {None}
    /\ \A p, c \in DOMAIN codes :
         (codes[c].parent = p) <=>
             (\E i \in DOMAIN codes[p].child : codes[p].child[i] = c)
    /\ \A p \in DOMAIN codes : \A i, j \in DOMAIN codes[p].child :
         codes[p].child[i] = codes[p].child[j] => i = j
    /\ \A c \in DOMAIN codes :
         codes[c].parent = None => c \in Registered
    /\ \A i, j \in DOMAIN items :
         codes[items[i]].id = codes[items[j]].id => i = j

\* C4 witness: a path repeating a segment and an id reused under a second
\* parent have both been registered without an exception.
C4_Witness ==
    /\ pc = "rows"
    /\ \E i \in DOMAIN listed :
         LET c == Split(listed[i]) IN Len(c) > 1 /\ c[1] = c[2]
    /\ \E c, d \in DOMAIN codes :
         /\ c # d
         /\ codes[c].id = codes[d].id
         /\ codes[c].parent # codes[d].parent

----------------------------------------------------------------------------
\* The dataset, as the claims speak of it

\* The rows that were accepted: row i built the SeriesKey sks[i].
Accepted == DOMAIN sks

\* The year columns of the file, in file order.
YearCols ==
    SelectSeq(header, LAMBDA c : \A i \in DOMAIN FixedColumns :
                                     c # FixedColumns[i])

\* Two rows agree on every key-defining field.
SameKeyFields(r1, r2) ==
    \A c \in {"model", "scenario", "region", "variable"} :
        Get(r1, c) = Get(r2, c)

\* The observations row i must yield: one per year column yc[j], in file
\* order.
ExpectedObs(yc, i) ==
    [j \in DOMAIN yc |->
        [dimension |-> <<[id |-> "YEAR", value |-> yc[j]]>>,
         value |-> Get(rows[i], yc[j]),
         series_key |-> i]]

\* The observations of a list that reference the SeriesKey of row i.
ObsOfRow(l, i) == SelectSeq(l, LAMBDA o : o.series_key = i)

\* The group that holds the observations of row i.
HoldsRow(yc, g, i) ==
    /\ KeyEq(codes, sks[series[g].key], sks[i])
    /\ ObsOfRow(series[g].obs, i) = ExpectedObs(yc, i)

\* The column a key dimension is read from.
ColumnOf(d) ==
    CASE d = "MODEL" -> "model"
      [] d = "SCENARIO" -> "scenario"
      [] d = "REGION" -> "region"
      [] d = "VARIABLE" -> "variable"

\* Value v is what row i holds for key dimension d: the cell of the column,
\* or a code whose id is the last segment of the row's 'variable' cell and
\* whose parent has the id of the segment before it.
IsRowValue(i, d, v) ==
    IF d = "VARIABLE"
    THEN LET s == Split(Get(rows[i], "variable"))
         IN  /\ v \in DOMAIN codes
             /\ codes[v].id = s[Len(s)]
             /\ Len(s) > 1 =>
                    /\ codes[v].parent # None
                    /\ codes[codes[v].parent].id = s[Len(s) - 1]
    ELSE v = Get(rows[i], ColumnOf(d))

\* C5: rows with identical key-defining fields are folded into one group
\* that holds the observations of both; the observations of every accepted
\* row are in the group of its key; no two groups were created by rows with
\* identical key-defining fields.
C5_SameKeyRowsMergedNothingDropped ==
    LET yc    == YearCols
        holds == [g \in DOMAIN series, i \in Accepted |-> HoldsRow(yc, g, i)]
    IN  /\ \A i, j \in Accepted :
             (i <= j /\ SameKeyFields(rows[i], rows[j])) =>
                 \E g \in DOMAIN series : holds[g, i] /\ holds[g, j]
        /\ \A g1, g2 \in DOMAIN series :
             SameKeyFields(rows[series[g1].key], rows[series[g2].key]) =>
                 g1 = g2

\* C5 witness: two accepted rows with identical key-defining fields are one
\* group of four observations.
C5_Witness ==
    /\ Len(sks) = 2
    /\ SameKeyFields(rows[1], rows[2])
    /\ Len(series) = 1
    /\ Len(series[1].obs) = 4

\* C6 (as claimed): a second row with the key-defining fields of an earlier
\* row and another unit is rejected, so the observations of a group all see
\* the one UNIT of the group's key.
C6_UnitConflictRejected ==
    /\ \A i, j \in Accepted :
         SameKeyFields(rows[i], rows[j]) =>
             Get(rows[i], "unit") = Get(rows[j], "unit")
    /\ \A g \in DOMAIN series : \A n \in DOMAIN series[g].obs :
         sks[series[g].obs[n].series_key].attrib.UNIT =
             sks[series[g].key].attrib.UNIT

\* C7 (as claimed): the entries of every key are those of the key-defining
\* dimensions in the order of the DSD, each with the row's value.
C7_KeyInDimensionOrder ==
    \A i \in Accepted :
        /\ Len(sks[i].values) = Len(KeyDimensions)
        /\ \A n \in DOMAIN KeyDimensions :
            /\ sks[i].values[n].id = KeyDimensions[n]
            /\ IsRowValue(i, KeyDimensions[n], sks[i].values[n].value)

\* C7 (amended): the entries of every key are in the order of the call,
\* VARIABLE first; read by dimension name in the order of the DSD they are
\* the row's model, scenario and region cells and the code its 'variable'
\* cell resolves to.
C7_KeyReadBackByName ==
    \A i \in Accepted :
        /\ [n \in DOMAIN sks[i].values |-> sks[i].values[n].id] =
               <<"VARIABLE", "MODEL", "SCENARIO", "REGION">>
        /\ \A n \in DOMAIN KeyDimensions :
               LET d == KeyDimensions[n]
               IN  /\ Cardinality({m \in DOMAIN sks[i].values :
                                       sks[i].values[m].id = d}) = 1
                   /\ \A m \in DOMAIN sks[i].values :
                        sks[i].values[m].id = d =>
                            IsRowValue(i, d, sks[i].values[m].value)
        /\ sks[i].attrib.UNIT = Get(rows[i], "unit")

\* C7 witness: a row whose 'variable' has two segments was given its key.
C7_Witness ==
    /\ Len(sks) >= 1
    /\ Len(Split(Get(rows[1], "variable"))) = 2
    /\ codes[sks[1].values[1].value].parent # None

\* C8: every accepted row yields one key and one observation per year
\* column, which pairs the column's label with the row's cell and references
\* the row's key; no other column yields an observation.
C8_OneObservationPerRemainingColumn ==
    LET yc == YearCols
    IN  /\ Len(sks) = IF pc = "aborted" THEN Len(rows) - 1 ELSE Len(rows)
        /\ \A i \in Accepted :
            /\ ObsOfRow(dsobs, i) = ExpectedObs(yc, i)
            /\ Len(ObsOfRow(dsobs, i)) = Len(header) - Len(FixedColumns)
        /\ Len(dsobs) = Len(sks) * Len(yc)
        /\ \A n \in DOMAIN dsobs :
            /\ dsobs[n].series_key \in Accepted
            /\ \A c \in DOMAIN FixedColumns :
                   dsobs[n].dimension[1].value # FixedColumns[c]

\* C8 witness: a row of a file with two year columns yielded two
\* observations of different values.
C8_Witness ==
    /\ Len(sks) = 1
    /\ Len(header) = 7
    /\ Len(dsobs) = 2
    /\ dsobs[1].value # dsobs[2].value

\* C9 (as claimed): every key of the dataset has one value per key-defining
\* dimension of the DSD, and its VARIABLE value is a code registered in the
\* codelist.
C9_KeysMatchSchema ==
    \A g \in DOMAIN series :
        LET k == sks[series[g].key]
        IN  /\ Len(k.values) = Len(KeyDimensions)
            /\ \A n \in DOMAIN k.values :
                   k.values[n].id = "VARIABLE" =>
                       k.values[n].value \in Registered

\* C10 (as claimed): in neither mode does the failure of a row abort the
\* run.
C10_RowFailureNeverAborts ==
    ~(pc = "aborted" /\ rows # <<>>)

\* C10 (amended): a row whose 'variable' does not resolve ends the run with
\* that exception; the dataset keeps what the rows before it put there, and
\* no later row is read.
C10_RowFailureEndsRun ==
    [][/\ pc = "aborted" => UNCHANGED vars
       /\ (rows' # rows /\ found'.err # "none") =>
              /\ pc' = "aborted"
              /\ err' = found'.err
              /\ Len(sks') = Len(rows)
              /\ UNCHANGED <<sks, series, dsobs>>
       /\ pc' = "aborted" => (rows' # rows /\ found'.err # "none")]_vars

\* C10 witness: the second row failed after the first was accepted.
C10_Witness ==
    /\ pc = "aborted"
    /\ Len(rows) = 2
    /\ Len(series) = 1
    /\ err \in {"KeyError", "ValueError"}

====
